---- MODULE Spec2Model ----
(***************************************************************************)
(* Model of Consol_bot_v.3.0.py: the field classes (Phone, Birthday), the  *)
(* Record and AddressBook classes, the command handlers wrapped by         *)
(* input_error, and the main loop.                                         *)
(*                                                                         *)
(* Strings are sequences of one-character strings, so that validation,     *)
(* parsing and formatting are computed character by character.  A date is  *)
(* a record [y, m, d].  An AddressBook (a dict, which keeps insertion      *)
(* order) is a sequence of records with distinct names.                    *)
(*                                                                         *)
(* Spec          : main - startup load, command loop, final save, and the  *)
(*                 program run again on the file it left                   *)
(* SpecRecord    : the Record / AddressBook methods called directly        *)
(* SpecWeek      : get_birthdays_per_week on a book, for a day             *)
(* SpecRoundTrip : save_to_disk, then load_from_disk into a new book       *)
(***************************************************************************)
EXTENDS Integers, Sequences, FiniteSets, TLC

VARIABLES
    pc,      \* position of the process: "start", "loop", "done", "crashed"; "api" when the classes are driven directly
    book,    \* the AddressBook: sequence of [name, phones, birthday]
    file,    \* addressbook.json: [exists, data], data a sequence of [name, phones, birthday]
    out,     \* the text of the last message printed (or the exception of the last direct call)
    today,   \* the date datetime.today() gave to the last get_birthdays_per_week call
    bdays,   \* what the last get_birthdays_per_week call produced: [raised, map]
    loaded,  \* a second, initially empty AddressBook that load_from_disk fills: [status, book]
    steps,   \* number of command lines read so far
    padsYear \* whether this platform's strftime pads %Y to four digits

vars == <<pc, book, file, out, today, bdays, loaded, steps, padsYear>>

----------------------------------------------------------------------------
(* Bounds of the model *)

\* longest phone list a record is grown to through direct calls of Record.add_phone
MaxPhones == 3

\* number of command lines the main loop is given, over all runs of the program
MaxSteps == 3

----------------------------------------------------------------------------
(* Characters and numbers *)

AsciiDigits == {"0", "1", "2", "3", "4", "5", "6", "7", "8", "9"}

DigitVal(c) ==
    CASE c = "0" -> 0 [] c = "1" -> 1 [] c = "2" -> 2 [] c = "3" -> 3
      [] c = "4" -> 4 [] c = "5" -> 5 [] c = "6" -> 6 [] c = "7" -> 7
      [] c = "8" -> 8 [] c = "9" -> 9

DigitChar(n) == <<"0", "1", "2", "3", "4", "5", "6", "7", "8", "9">>[n + 1]

\* int() of a string of digits
RECURSIVE NumVal(_)
NumVal(s) ==
    IF s = <<>> THEN 0
    ELSE 10 * NumVal(SubSeq(s, 1, Len(s) - 1)) + DigitVal(s[Len(s)])

\* the decimal digits of n without leading zeros, as the C library's %Y prints a year
RECURSIVE NumStr(_)
NumStr(n) ==
    IF n < 10 THEN <<DigitChar(n)>>
    ELSE Append(NumStr(n \div 10), DigitChar(n % 10))

\* s padded with zeros on the left to at least w characters
RECURSIVE ZeroPad(_, _)
ZeroPad(s, w) == IF Len(s) >= w THEN s ELSE ZeroPad(<<"0">> \o s, w)

AllDigits(s) == \A i \in 1..Len(s) : s[i] \in AsciiDigits

----------------------------------------------------------------------------
(* Phone: re.match(r"^\d{10}$", value) *)

PhoneDigits == 10

\* "$" matches at the end of the string and also just before a newline that
\* ends the string.  (\d also matches decimal digits outside ASCII; the
\* strings of this model are ASCII.)
Validate(value) ==
    /\ Len(value) >= PhoneDigits
    /\ \A i \in 1..PhoneDigits : value[i] \in AsciiDigits
    /\ \/ Len(value) = PhoneDigits
       \/ Len(value) = PhoneDigits + 1 /\ value[PhoneDigits + 1] = "\n"

----------------------------------------------------------------------------
(* Calendar dates (datetime.date) *)

NoDate == [y |-> 0, m |-> 0, d |-> 0]

IsLeap(y) == y % 4 = 0 /\ (y % 100 # 0 \/ y % 400 = 0)

DaysInMonth(y, m) ==
    IF m = 2 THEN (IF IsLeap(y) THEN 29 ELSE 28)
    ELSE IF m \in {4, 6, 9, 11} THEN 30 ELSE 31

DaysBeforeMonth(y, m) ==
    <<0, 31, 59, 90, 120, 151, 181, 212, 243, 273, 304, 334>>[m]
        + (IF m > 2 /\ IsLeap(y) THEN 1 ELSE 0)

DaysBeforeYear(y) ==
    (y - 1) * 365 + (y - 1) \div 4 - (y - 1) \div 100 + (y - 1) \div 400

\* date.toordinal()
Ordinal(dt) == DaysBeforeYear(dt.y) + DaysBeforeMonth(dt.y, dt.m) + dt.d

\* date(y, m, d) is constructible
IsDate(y, m, d) ==
    /\ y \in 1..9999
    /\ m \in 1..12
    /\ d \in 1..DaysInMonth(y, m)

\* a < b on dates
DateLess(a, b) == Ordinal(a) < Ordinal(b)

\* date.strftime('%A')
WeekdayName(dt) ==
    <<"Monday", "Tuesday", "Wednesday", "Thursday", "Friday", "Saturday",
      "Sunday">>[((Ordinal(dt) + 6) % 7) + 1]

\* date.replace(year=y) raises ValueError when the day does not exist in year y
CanReplaceYear(dt, y) == IsDate(y, dt.m, dt.d)
ReplaceYear(dt, y) == [dt EXCEPT !.y = y]

----------------------------------------------------------------------------
(* Birthday: datetime.strptime(value, "%d.%m.%Y") and strftime("%d.%m.%Y") *)

DotsOf(value) == {i \in 1..Len(value) : value[i] = "."}

\* %d : 3[0-1] | [1-2]\d | 0[1-9] | [1-9] | " "[1-9]
DayFieldOk(f) ==
    \/ Len(f) = 2 /\ f[1] = "3" /\ f[2] \in {"0", "1"}
    \/ Len(f) = 2 /\ f[1] \in {"1", "2"} /\ f[2] \in AsciiDigits
    \/ Len(f) = 2 /\ f[1] \in {"0", " "} /\ f[2] \in AsciiDigits \ {"0"}
    \/ Len(f) = 1 /\ f[1] \in AsciiDigits \ {"0"}

\* %m : 1[0-2] | 0[1-9] | [1-9]
MonthFieldOk(f) ==
    \/ Len(f) = 2 /\ f[1] = "1" /\ f[2] \in {"0", "1", "2"}
    \/ Len(f) = 2 /\ f[1] = "0" /\ f[2] \in AsciiDigits \ {"0"}
    \/ Len(f) = 1 /\ f[1] \in AsciiDigits \ {"0"}

\* %Y : \d\d\d\d
YearFieldOk(f) == Len(f) = 4 /\ AllDigits(f)

FieldVal(f) == IF f # <<>> /\ f[1] = " " THEN NumVal(Tail(f)) ELSE NumVal(f)

\* the three fields of value, when it has exactly two dots
DayField(value) ==
    LET p1 == CHOOSE i \in DotsOf(value) : \A j \in DotsOf(value) : i <= j
    IN  SubSeq(value, 1, p1 - 1)
MonthField(value) ==
    LET p1 == CHOOSE i \in DotsOf(value) : \A j \in DotsOf(value) : i <= j
        p2 == CHOOSE i \in DotsOf(value) : \A j \in DotsOf(value) : i >= j
    IN  SubSeq(value, p1 + 1, p2 - 1)
YearField(value) ==
    LET p2 == CHOOSE i \in DotsOf(value) : \A j \in DotsOf(value) : i >= j
    IN  SubSeq(value, p2 + 1, Len(value))

\* Birthday.validate: strptime succeeds
ValidateBirthday(value) ==
    /\ Cardinality(DotsOf(value)) = 2
    /\ DayFieldOk(DayField(value))
    /\ MonthFieldOk(MonthField(value))
    /\ YearFieldOk(YearField(value))
    /\ IsDate(FieldVal(YearField(value)), FieldVal(MonthField(value)),
              FieldVal(DayField(value)))

\* the date Birthday.__init__ stores
ParseBirthday(value) ==
    [y |-> FieldVal(YearField(value)), m |-> FieldVal(MonthField(value)),
     d |-> FieldVal(DayField(value))]

\* Birthday.__str__: strftime("%d.%m.%Y").  %d and %m are two digits; the year
\* is printed by the platform's C library, which pads it to four digits on
\* some platforms (padYear) and prints it unpadded on others (glibc).
BirthdayStr(dt, padYear) ==
    ZeroPad(NumStr(dt.d), 2) \o <<".">> \o ZeroPad(NumStr(dt.m), 2) \o <<".">>
        \o (IF padYear THEN ZeroPad(NumStr(dt.y), 4) ELSE NumStr(dt.y))

----------------------------------------------------------------------------
(* Record *)

\* Record.__init__; birthday = NoDate stands for "no birthday attribute"
NewRecord(name) == [name |-> name, phones |-> <<>>, birthday |-> NoDate]

HasBirthday(rec) == rec.birthday # NoDate

\* Record.add_phone: Phone(phone) raises ValueError on an invalid value
AddPhoneRaises(phone) == ~Validate(phone)
AddPhone(rec, phone) == [rec EXCEPT !.phones = Append(@, phone)]

DropAt(s, i) == SubSeq(s, 1, i - 1) \o SubSeq(s, i + 1, Len(s))

\* Record.remove_phone: a for loop over self.phones that removes from the list
\* it iterates; the list iterator holds an index, which advances after every
\* element, removed or not.  Each Phone is a distinct object, so
\* self.phones.remove(p) removes exactly the element the iterator is at.
RECURSIVE RemoveLoop(_, _, _)
RemoveLoop(phones, i, phone) ==
    IF i > Len(phones) THEN phones
    ELSE IF phones[i] = phone THEN RemoveLoop(DropAt(phones, i), i + 1, phone)
    ELSE RemoveLoop(phones, i + 1, phone)

RemovePhone(rec, phone) == [rec EXCEPT !.phones = RemoveLoop(@, 1, phone)]

\* Record.edit_phone: Phone(new_phone) is constructed at each matching entry,
\* so an invalid new_phone raises only if some entry matches; the loop has no
\* break.
EditPhoneRaises(rec, old_phone, new_phone) ==
    /\ \E i \in 1..Len(rec.phones) : rec.phones[i] = old_phone
    /\ ~Validate(new_phone)

RECURSIVE EditLoop(_, _, _, _)
EditLoop(phones, i, old_phone, new_phone) ==
    IF i > Len(phones) THEN phones
    ELSE IF phones[i] = old_phone
         THEN EditLoop([phones EXCEPT ![i] = new_phone], i + 1, old_phone, new_phone)
         ELSE EditLoop(phones, i + 1, old_phone, new_phone)

EditPhone(rec, old_phone, new_phone) ==
    [rec EXCEPT !.phones = EditLoop(@, 1, old_phone, new_phone)]

\* Record.add_birthday: Birthday(birthday) raises ValueError on an invalid value
AddBirthdayRaises(birthday) == ~ValidateBirthday(birthday)
AddBirthday(rec, birthday) == [rec EXCEPT !.birthday = ParseBirthday(birthday)]

----------------------------------------------------------------------------
(* AddressBook *)

Keys(bk) == {bk[i].name : i \in 1..Len(bk)}

IndexOf(bk, name) == CHOOSE i \in 1..Len(bk) : bk[i].name = name

\* AddressBook.find, for a name that is present
Find(bk, name) == bk[IndexOf(bk, name)]

\* self.data[name] = record: an existing key keeps its place in the dict
AddRecord(bk, rec) ==
    IF rec.name \in Keys(bk) THEN [bk EXCEPT ![IndexOf(bk, rec.name)] = rec]
    ELSE Append(bk, rec)

\* the record under name replaced by rec (a mutation of the object in the dict)
SetRecord(bk, name, rec) == [bk EXCEPT ![IndexOf(bk, name)] = rec]

----------------------------------------------------------------------------
(* AddressBook.get_birthdays_per_week *)

\* the records that have a birthday, in dict order
Users(bk) == SelectSeq(bk, HasBirthday)

\* birthday.replace(year=today.year), and the second replace when that date
\* is before today, raise ValueError for a day the target year does not have
UserRaises(birthday, td) ==
    \/ ~CanReplaceYear(birthday, td.y)
    \/ /\ DateLess(ReplaceYear(birthday, td.y), td)
       /\ ~CanReplaceYear(ReplaceYear(birthday, td.y), td.y + 1)

\* birthday_this_year after the if
Occurrence(birthday, td) ==
    LET birthday_this_year == ReplaceYear(birthday, td.y)
    IN  IF DateLess(birthday_this_year, td)
        THEN ReplaceYear(birthday_this_year, td.y + 1)
        ELSE birthday_this_year

DeltaDays(birthday, td) == Ordinal(Occurrence(birthday, td)) - Ordinal(td)

\* the key without the reassignment of Saturday and Sunday
BucketNoShift(occurrence) == WeekdayName(occurrence)

\* the key the name is appended under
Bucket(occurrence) ==
    LET weekday == WeekdayName(occurrence)
    IN  IF weekday \in {"Saturday", "Sunday"} THEN "Monday" ELSE weekday

\* birthdays[weekday].append(name) on a defaultdict(list), kept in key order
PutName(map, weekday, name) ==
    IF \E k \in 1..Len(map) : map[k].weekday = weekday
    THEN [k \in 1..Len(map) |->
            IF map[k].weekday = weekday
            THEN [map[k] EXCEPT !.names = Append(@, name)]
            ELSE map[k]]
    ELSE Append(map, [weekday |-> weekday, names |-> <<name>>])

RECURSIVE WeekLoop(_, _, _, _)
WeekLoop(users, i, td, map) ==
    IF i > Len(users) THEN map
    ELSE IF DeltaDays(users[i].birthday, td) < 7
         THEN WeekLoop(users, i + 1, td,
                       PutName(map, Bucket(Occurrence(users[i].birthday, td)),
                               users[i].name))
         ELSE WeekLoop(users, i + 1, td, map)

\* the call's outcome: the mapping, or a ValueError that leaves the function
GetBirthdaysPerWeek(bk, td) ==
    IF \E i \in 1..Len(Users(bk)) : UserRaises(Users(bk)[i].birthday, td)
    THEN [raised |-> TRUE, map |-> <<>>]
    ELSE [raised |-> FALSE, map |-> WeekLoop(Users(bk), 1, td, <<>>)]

----------------------------------------------------------------------------
(* AddressBook.save_to_disk and load_from_disk *)

(* The file is modelled by the JSON object it holds: a sequence of          *)
(* [name, phones, birthday] entries in key order.  JNull stands for null    *)
(* (load_from_disk tests the birthday for truth, so null and the empty      *)
(* string behave alike).                                                    *)
JNull == <<>>

NoFile == [exists |-> FALSE, data |-> <<>>]

SaveEntry(rec, padYear) ==
    [name |-> rec.name, phones |-> rec.phones,
     birthday |-> IF HasBirthday(rec) THEN BirthdayStr(rec.birthday, padYear)
                  ELSE JNull]

SaveToDisk(bk, padYear) ==
    [exists |-> TRUE,
     data |-> [i \in 1..Len(bk) |-> SaveEntry(bk[i], padYear)]]

\* an entry whose phones and birthday all pass their constructors
EntryOk(e) ==
    /\ \A i \in 1..Len(e.phones) : Validate(e.phones[i])
    /\ e.birthday = JNull \/ ValidateBirthday(e.birthday)

EntryRecord(e) ==
    [name |-> e.name, phones |-> e.phones,
     birthday |-> IF e.birthday = JNull THEN NoDate
                  ELSE ParseBirthday(e.birthday)]

\* the loop over json_data.items(): each record is put into self.data once
\* built; a ValueError leaves the loop with the earlier records already stored
RECURSIVE LoadLoop(_, _, _)
LoadLoop(bk, data, i) ==
    IF i > Len(data) THEN [raised |-> FALSE, book |-> bk]
    ELSE IF ~EntryOk(data[i]) THEN [raised |-> TRUE, book |-> bk]
    ELSE LoadLoop(AddRecord(bk, EntryRecord(data[i])), data, i + 1)

\* FileNotFoundError is swallowed
LoadFromDisk(bk, f) ==
    IF ~f.exists THEN [raised |-> FALSE, book |-> bk]
    ELSE LoadLoop(bk, f.data, 1)

----------------------------------------------------------------------------
(* The command handlers, each wrapped by input_error.  A handler is given   *)
(* the book and the argument list and yields the book it leaves and the     *)
(* message it returns.  Messages that embed arguments are kept as their     *)
(* format strings.                                                          *)

\* input_error: ValueError and IndexError
MsgGiveMe == "Give me name and phone please."
\* input_error: KeyError
MsgNotFound == "Contact not found."
MsgAdded == "Added {username} with phone number {phone}"
MsgChanged == "Changed {username}'s phone number to {phone}"
MsgPhone == "{record.phones[0].value}"
MsgBirthdayAdded == "Added birthday {bday} for {username}"
MsgBirthday == "{record.birthday}"
MsgNoBirthday == "Birthday not set"
MsgNoWeek == "No birthdays in the coming week."
MsgWeek == "{weekday}: {names}"
MsgLoaded == "Address book loaded from disk."

ErrorMessages == {MsgGiveMe, MsgNotFound}

\* add without the "username not in book" test: a fresh Record is always stored
AddCmdAlwaysNewRecord(bk, args) ==
    IF Len(args) < 2 THEN [book |-> bk, out |-> MsgGiveMe]
    ELSE LET username == args[1]
             phone == args[2]
             bk1 == AddRecord(bk, NewRecord(username))
         IN  IF AddPhoneRaises(phone) THEN [book |-> bk1, out |-> MsgGiveMe]
             ELSE [book |-> SetRecord(bk1, username,
                                      AddPhone(Find(bk1, username), phone)),
                   out |-> MsgAdded]

\* add: the new Record is put into the book before add_phone validates the phone
AddCmd(bk, args) ==
    IF Len(args) < 2 THEN [book |-> bk, out |-> MsgGiveMe]
    ELSE LET username == args[1]
             phone == args[2]
             bk1 == IF username \notin Keys(bk)
                    THEN AddRecord(bk, NewRecord(username))
                    ELSE bk
         IN  IF AddPhoneRaises(phone) THEN [book |-> bk1, out |-> MsgGiveMe]
             ELSE [book |-> SetRecord(bk1, username,
                                      AddPhone(Find(bk1, username), phone)),
                   out |-> MsgAdded]

\* change: record.phones[0] raises IndexError on a record without phones
ChangeCmd(bk, args) ==
    IF Len(args) < 2 THEN [book |-> bk, out |-> MsgGiveMe]
    ELSE LET username == args[1]
             phone == args[2]
         IN  IF username \notin Keys(bk) THEN [book |-> bk, out |-> MsgNotFound]
             ELSE LET record == Find(bk, username)
                  IN  IF record.phones = <<>>
                      THEN [book |-> bk, out |-> MsgGiveMe]
                      ELSE IF EditPhoneRaises(record, record.phones[1], phone)
                      THEN [book |-> bk, out |-> MsgGiveMe]
                      ELSE [book |-> SetRecord(bk, username,
                                       EditPhone(record, record.phones[1], phone)),
                            out |-> MsgChanged]

PhoneCmd(bk, args) ==
    IF Len(args) = 0 THEN [book |-> bk, out |-> MsgGiveMe]
    ELSE IF args[1] \notin Keys(bk) THEN [book |-> bk, out |-> MsgNotFound]
    ELSE IF Find(bk, args[1]).phones = <<>> THEN [book |-> bk, out |-> MsgGiveMe]
    ELSE [book |-> bk, out |-> MsgPhone]

AllContactsCmd(bk) ==
    [book |-> bk, out |-> IF bk = <<>> THEN "No contacts saved" ELSE "{records}"]

AddBirthdayCmd(bk, args) ==
    IF Len(args) < 2 THEN [book |-> bk, out |-> MsgGiveMe]
    ELSE LET username == args[1]
             bday == args[2]
         IN  IF username \notin Keys(bk) THEN [book |-> bk, out |-> MsgNotFound]
             ELSE IF AddBirthdayRaises(bday) THEN [book |-> bk, out |-> MsgGiveMe]
             ELSE [book |-> SetRecord(bk, username,
                                      AddBirthday(Find(bk, username), bday)),
                   out |-> MsgBirthdayAdded]

ShowBirthdayCmd(bk, args) ==
    IF Len(args) = 0 THEN [book |-> bk, out |-> MsgGiveMe]
    ELSE IF args[1] \notin Keys(bk) THEN [book |-> bk, out |-> MsgNotFound]
    ELSE [book |-> bk,
          out |-> IF HasBirthday(Find(bk, args[1])) THEN MsgBirthday
                  ELSE MsgNoBirthday]

\* birthdays: a ValueError of get_birthdays_per_week is caught by input_error
BirthdaysCmd(bk, td) ==
    LET r == GetBirthdaysPerWeek(bk, td)
    IN  [book |-> bk,
         out |-> IF r.raised THEN MsgGiveMe
                 ELSE IF r.map = <<>> THEN MsgNoWeek ELSE MsgWeek]

\* load: a ValueError of load_from_disk is caught by input_error
LoadCmd(bk, f) ==
    LET r == LoadFromDisk(bk, f)
    IN  [book |-> r.book, out |-> IF r.raised THEN MsgGiveMe ELSE MsgLoaded]

----------------------------------------------------------------------------
(* Inputs *)

NameA == <<"a">>
NameB == <<"b">>
Names == {NameA, NameB}

PhoneA == <<"0", "1", "2", "3", "4", "5", "6", "7", "8", "9">>
PhoneB == <<"5", "5", "5", "0", "0", "0", "1", "1", "1", "2">>
PhoneShort == <<"1", "2", "3">>
\* a phone string a JSON file can hold: ten digits and a line feed
PhoneNewline == PhoneA \o <<"\n">>

BdayOld == <<"0", "1", ".", "0", "1", ".", "0", "9", "9", "9">>
BdayLeap == <<"2", "9", ".", "0", "2", ".", "2", "0", "0", "0">>
BdayJune == <<"2", "9", ".", "0", "6", ".", "1", "9", "9", "0">>
BdayDec == <<"2", "8", ".", "1", "2", ".", "1", "9", "8", "5">>
BdayFeb == <<"2", "5", ".", "0", "2", ".", "1", "9", "7", "0">>
\* not a calendar date
BdayBad == <<"3", "1", ".", "0", "2", ".", "2", "0", "2", "0">>

\* the second argument of a command line
Values == {PhoneA, PhoneB, PhoneShort, BdayOld, BdayLeap, BdayBad}

\* the arguments pars_command passes on: none, a name, a name and a value
ArgLists ==
    {<<>>} \cup {<<n>> : n \in Names} \cup {<<n, v>> : n \in Names, v \in Values}

\* the dates datetime.today() is drawn from: the last days of February, June
\* and December of a common year and of a leap year
TodayYears == {2023, 2024}
TodaySet ==
    {[y |-> yy, m |-> mm, d |-> dd] :
        yy \in TodayYears, mm \in {2, 6, 12}, dd \in 22..31}
    \cap {dt \in [y : TodayYears, m : 1..12, d : 1..31] : IsDate(dt.y, dt.m, dt.d)}

\* what addressbook.json may hold when the program starts
InitFiles ==
    {NoFile,
     [exists |-> TRUE,
      data |-> <<[name |-> NameA, phones |-> <<PhoneA>>, birthday |-> BdayLeap]>>],
     [exists |-> TRUE,
      data |-> <<[name |-> NameA, phones |-> <<PhoneNewline>>, birthday |-> JNull]>>],
     [exists |-> TRUE,
      data |-> <<[name |-> NameA, phones |-> <<PhoneA>>, birthday |-> JNull],
                 [name |-> NameB, phones |-> <<PhoneShort>>, birthday |-> JNull]>>]}

SeqsUpTo(S, n) == UNION {[1..k -> S] : k \in 0..n}

\* books of up to two records under distinct names, the records drawn from R
BooksOver(R) ==
    {bk \in SeqsUpTo(R, 2) :
        \A i, j \in 1..Len(bk) : i # j => bk[i].name # bk[j].name}

\* books whose records hold only a birthday, or nothing
WeekBooks ==
    BooksOver([name : Names, phones : {<<>>},
               birthday : {NoDate} \cup {ParseBirthday(v) :
                   v \in {BdayOld, BdayLeap, BdayJune, BdayDec, BdayFeb}}])

\* books of valid records: phone lists with and without repeats, with and
\* without a birthday
ValidBooks ==
    BooksOver([name : Names, phones : SeqsUpTo({PhoneA, PhoneB}, 2),
               birthday : {NoDate, ParseBirthday(BdayOld), ParseBirthday(BdayLeap)}])

NoWeek == [raised |-> FALSE, map |-> <<>>]
NotLoaded == [status |-> "none", book |-> <<>>]

----------------------------------------------------------------------------
(* main: the startup load, the command loop, the final save *)

Init ==
    /\ pc = "start"
    /\ book = <<>>
    /\ file \in InitFiles
    /\ out = ""
    /\ today = NoDate
    /\ bdays = NoWeek
    /\ loaded = NotLoaded
    /\ steps = 0
    /\ padsYear \in BOOLEAN

\* book.load_from_disk() outside any handler: a ValueError ends the process
Startup ==
    /\ pc = "start"
    /\ LET r == LoadFromDisk(book, file)
       IN  /\ book' = r.book
           /\ pc' = IF r.raised THEN "crashed" ELSE "loop"
           /\ out' = IF r.raised THEN "Traceback: ValueError" ELSE out
    /\ UNCHANGED <<file, today, bdays, loaded, steps, padsYear>>

\* one turn of the loop for a command other than close/exit: r is what the
\* handler yields
Turn(r) ==
    /\ pc = "loop"
    /\ steps < MaxSteps
    /\ book' = r.book
    /\ out' = r.out
    /\ steps' = steps + 1
    /\ UNCHANGED <<pc, file, today, bdays, loaded, padsYear>>

Hello == Turn([book |-> book, out |-> "How can I help you?"])
Add(args) == Turn(AddCmd(book, args))
Change(args) == Turn(ChangeCmd(book, args))
Phone(args) == Turn(PhoneCmd(book, args))
AllContacts == Turn(AllContactsCmd(book))
AddBirthdayTurn(args) == Turn(AddBirthdayCmd(book, args))
ShowBirthday(args) == Turn(ShowBirthdayCmd(book, args))
Birthdays(td) == Turn(BirthdaysCmd(book, td))
UnknownCommand == Turn([book |-> book, out |-> "Unknown command: {args[0]}"])
Load == Turn(LoadCmd(book, file))

Save ==
    /\ pc = "loop"
    /\ steps < MaxSteps
    /\ file' = SaveToDisk(book, padsYear)
    /\ out' = "Address book saved."
    /\ steps' = steps + 1
    /\ UNCHANGED <<pc, book, today, bdays, loaded, padsYear>>

\* close / exit: "Goodbye!", then the final save, then break
ExitBot ==
    /\ pc = "loop"
    /\ steps < MaxSteps
    /\ out' = "Goodbye!"
    /\ file' = SaveToDisk(book, padsYear)
    /\ pc' = "done"
    /\ steps' = steps + 1
    /\ UNCHANGED <<book, today, bdays, loaded, padsYear>>

\* the program is run again: a new process with an empty AddressBook
Restart ==
    /\ pc \in {"done", "crashed"}
    /\ pc' = "start"
    /\ book' = <<>>
    /\ out' = ""
    /\ UNCHANGED <<file, today, bdays, loaded, steps, padsYear>>

Next ==
    \/ Startup
    \/ Hello
    \/ \E args \in ArgLists : Add(args)
    \/ \E args \in ArgLists : Change(args)
    \/ \E args \in ArgLists : Phone(args)
    \/ AllContacts
    \/ \E args \in ArgLists : AddBirthdayTurn(args)
    \/ \E args \in ArgLists : ShowBirthday(args)
    \/ \E td \in TodaySet : Birthdays(td)
    \/ UnknownCommand
    \/ Save
    \/ Load
    \/ ExitBot
    \/ Restart

Spec == Init /\ [][Next]_vars

----------------------------------------------------------------------------
(* The Record and AddressBook methods called directly on one AddressBook    *)

ApiPhones == {PhoneA, PhoneB, PhoneShort}

InitRecord ==
    /\ pc = "api"
    /\ book = <<>>
    /\ file = NoFile
    /\ out = ""
    /\ today = NoDate
    /\ bdays = NoWeek
    /\ loaded = NotLoaded
    /\ steps = 0
    /\ padsYear = FALSE

\* book.add_record(Record(name))
ApiAddRecord(name) ==
    /\ book' = AddRecord(book, NewRecord(name))
    /\ out' = "ok"
    /\ UNCHANGED <<pc, file, today, bdays, loaded, steps, padsYear>>

\* book.find(name).add_phone(phone)
ApiAddPhone(name, phone) ==
    /\ name \in Keys(book)
    /\ Len(Find(book, name).phones) < MaxPhones
    /\ IF AddPhoneRaises(phone)
       THEN book' = book /\ out' = "ValueError"
       ELSE /\ book' = SetRecord(book, name, AddPhone(Find(book, name), phone))
            /\ out' = "ok"
    /\ UNCHANGED <<pc, file, today, bdays, loaded, steps, padsYear>>

\* book.find(name).remove_phone(phone)
ApiRemovePhone(name, phone) ==
    /\ name \in Keys(book)
    /\ book' = SetRecord(book, name, RemovePhone(Find(book, name), phone))
    /\ out' = "ok"
    /\ UNCHANGED <<pc, file, today, bdays, loaded, steps, padsYear>>

\* book.find(name).edit_phone(old_phone, new_phone)
ApiEditPhone(name, old_phone, new_phone) ==
    /\ name \in Keys(book)
    /\ IF EditPhoneRaises(Find(book, name), old_phone, new_phone)
       THEN book' = book /\ out' = "ValueError"
       ELSE /\ book' = SetRecord(book, name,
                           EditPhone(Find(book, name), old_phone, new_phone))
            /\ out' = "ok"
    /\ UNCHANGED <<pc, file, today, bdays, loaded, steps, padsYear>>

NextRecord ==
    \/ \E n \in Names : ApiAddRecord(n)
    \/ \E n \in Names, p \in ApiPhones : ApiAddPhone(n, p)
    \/ \E n \in Names, p \in ApiPhones : ApiRemovePhone(n, p)
    \/ \E n \in Names, p \in ApiPhones, q \in ApiPhones : ApiEditPhone(n, p, q)

SpecRecord == InitRecord /\ [][NextRecord]_vars

----------------------------------------------------------------------------
(* get_birthdays_per_week called on a book, on a day *)

InitWeek ==
    /\ pc = "api"
    /\ book \in WeekBooks
    /\ file = NoFile
    /\ out = ""
    /\ today = NoDate
    /\ bdays = NoWeek
    /\ loaded = NotLoaded
    /\ steps = 0
    /\ padsYear = FALSE

\* book.get_birthdays_per_week() when datetime.today() is td
ApiBirthdays(td) ==
    /\ today' = td
    /\ bdays' = GetBirthdaysPerWeek(book, td)
    /\ out' = IF bdays'.raised THEN "ValueError" ELSE "ok"
    /\ UNCHANGED <<pc, book, file, loaded, steps, padsYear>>

NextWeek == \E td \in TodaySet : ApiBirthdays(td)

SpecWeek == InitWeek /\ [][NextWeek]_vars

----------------------------------------------------------------------------
(* save_to_disk on a book, then load_from_disk into a new AddressBook *)

InitRoundTrip ==
    /\ pc = "api"
    /\ book \in ValidBooks
    /\ file = NoFile
    /\ out = ""
    /\ today = NoDate
    /\ bdays = NoWeek
    /\ loaded = NotLoaded
    /\ steps = 0
    /\ padsYear \in BOOLEAN

\* book.save_to_disk()
ApiSave ==
    /\ ~file.exists
    /\ file' = SaveToDisk(book, padsYear)
    /\ out' = "ok"
    /\ UNCHANGED <<pc, book, today, bdays, loaded, steps, padsYear>>

\* AddressBook().load_from_disk()
ApiLoadNew ==
    /\ file.exists
    /\ loaded.status = "none"
    /\ LET r == LoadFromDisk(<<>>, file)
       IN  /\ loaded' = [status |-> IF r.raised THEN "ValueError" ELSE "ok",
                         book |-> r.book]
           /\ out' = IF r.raised THEN "ValueError" ELSE "ok"
    /\ UNCHANGED <<pc, book, file, today, bdays, steps, padsYear>>

NextRoundTrip == ApiSave \/ ApiLoadNew

SpecRoundTrip == InitRoundTrip /\ [][NextRoundTrip]_vars

----------------------------------------------------------------------------
(* Properties *)

\* the two books hold the same names and, under each name, the same phone
\* list and the same birthday
SameContent(b1, b2) ==
    /\ Keys(b1) = Keys(b2)
    /\ \A n \in Keys(b1) : Find(b1, n) = Find(b2, n)

\* how many times name stands in the buckets of map
TimesListed(map, name) ==
    Cardinality(UNION {{<<k, j>> : j \in {i \in 1..Len(map[k].names) :
                                            map[k].names[i] = name}} :
                       k \in 1..Len(map)})

\* this year's date and, when it is before td, next year's date both exist
HasNextOccurrence(birthday, td) ==
    /\ CanReplaceYear(birthday, td.y)
    /\ DateLess(ReplaceYear(birthday, td.y), td) => CanReplaceYear(birthday, td.y + 1)

\* C1: after a weekly-birthday query, every contact with a birthday whose next
\* occurrence on or after today exists is listed exactly once if that
\* occurrence is 0..6 days after today and not at all otherwise; a contact
\* without a birthday is not listed.
C1ListedIffWithinWeek ==
    today # NoDate =>
        \A i \in 1..Len(book) :
            IF ~HasBirthday(book[i])
            THEN TimesListed(bdays.map, book[i].name) = 0
            ELSE HasNextOccurrence(book[i].birthday, today) =>
                    TimesListed(bdays.map, book[i].name) =
                        (IF DeltaDays(book[i].birthday, today) \in 0..6 THEN 1 ELSE 0)

\* C2: in a result of the weekly-birthday query every listed contact stands
\* under the weekday name of its occurrence, a Saturday or Sunday occurrence
\* under "Monday"; no key is "Saturday" or "Sunday".
C2WeekendUnderMonday ==
    (today # NoDate /\ ~bdays.raised) =>
        \A k \in 1..Len(bdays.map) :
            /\ bdays.map[k].weekday \notin {"Saturday", "Sunday"}
            /\ \A j \in 1..Len(bdays.map[k].names) :
                LET w == WeekdayName(Occurrence(
                             Find(book, bdays.map[k].names[j]).birthday, today))
                IN  bdays.map[k].weekday =
                        (IF w \in {"Saturday", "Sunday"} THEN "Monday" ELSE w)

\* a contact whose occurrence is a Saturday is listed under "Monday"
C2Witness ==
    /\ today # NoDate
    /\ ~bdays.raised
    /\ \E k \in 1..Len(bdays.map) :
        /\ bdays.map[k].weekday = "Monday"
        /\ \E j \in 1..Len(bdays.map[k].names) :
            WeekdayName(Occurrence(
                Find(book, bdays.map[k].names[j]).birthday, today)) = "Saturday"

\* C3: the weekly-birthday query completes and returns a bucket mapping for
\* every book and every today, 29 February birthdays included.
C3QueryCompletes == ~bdays.raised

\* C4: loading the saved file into an empty address book yields the names,
\* phone lists and birthdays of the book that was saved.
C4RoundTrip ==
    loaded.status # "none" =>
        loaded.status = "ok" /\ SameContent(loaded.book, book)

\* what the add command is to leave for a name and a valid phone
AddPost(n, p) ==
    IF n \notin Keys(book)
    THEN /\ Len(book') = Len(book) + 1
         /\ Keys(book') = Keys(book) \cup {n}
         /\ Find(book', n).phones = <<p>>
         /\ \A m \in Keys(book) : Find(book', m) = Find(book, m)
    ELSE /\ Len(book') = Len(book)
         /\ Keys(book') = Keys(book)
         /\ Find(book', n).phones = Append(Find(book, n).phones, p)
         /\ Find(book', n).birthday = Find(book, n).birthday
         /\ \A m \in Keys(book) \ {n} : Find(book', m) = Find(book, m)

\* C5: add with a name and a valid phone creates exactly one record with the
\* phone list [phone] for a new name, appends the phone to the existing
\* record's list for a known name, and leaves every other record unchanged.
C5AddCreatesOrAppends ==
    [][\A n \in Names, p \in Values :
          (Add(<<n, p>>) /\ Validate(p)) => AddPost(n, p)]_vars

\* an add has appended a second phone to one record while another record exists
C5Witness ==
    /\ pc = "loop"
    /\ out = MsgAdded
    /\ Len(book) = 2
    /\ \E i \in 1..Len(book) : book[i].phones = <<PhoneA, PhoneB>>

FirstIndex(phones, value) ==
    CHOOSE i \in 1..Len(phones) :
        phones[i] = value /\ \A j \in 1..(i - 1) : phones[j] # value

ReplaceFirst(phones, old, new) ==
    IF \E i \in 1..Len(phones) : phones[i] = old
    THEN [phones EXCEPT ![FirstIndex(phones, old)] = new]
    ELSE phones

RemoveFirst(phones, value) ==
    IF \E i \in 1..Len(phones) : phones[i] = value
    THEN DropAt(phones, FirstIndex(phones, value))
    ELSE phones

\* C6: editPhone with a valid new value replaces only the first entry equal
\* to the old value, in place, and changes nothing when no entry equals it.
C6EditsFirstOnly ==
    [][\A n \in Names, old \in ApiPhones, new \in ApiPhones :
          (ApiEditPhone(n, old, new) /\ Validate(new)) =>
              /\ out' = "ok"
              /\ Find(book', n).phones =
                    ReplaceFirst(Find(book, n).phones, old, new)]_vars

\* C7: removePhone removes exactly the first entry equal to the value and
\* changes nothing when no entry equals it.
C7RemovesFirstOnly ==
    [][\A n \in Names, p \in ApiPhones :
          ApiRemovePhone(n, p) =>
              /\ out' = "ok"
              /\ Find(book', n).phones = RemoveFirst(Find(book, n).phones, p)]_vars

\* C8: every phone held in every record of the address book is a string of
\* exactly ten decimal digits and nothing else.
C8PhonesAreTenDigits ==
    \A i \in 1..Len(book) : \A j \in 1..Len(book[i].phones) :
        Len(book[i].phones[j]) = PhoneDigits /\ AllDigits(book[i].phones[j])

\* C9: no error terminates the process; the session ends only on close or
\* exit, after a final save that leaves the store equal to the book.
C9OnlyExitEndsSession ==
    /\ pc # "crashed"
    /\ pc = "done" => out = "Goodbye!" /\ file = SaveToDisk(book, padsYear)

\* C10: a command that returns an error message leaves the names, phone
\* lists and birthdays of the book as they were.
C10FailedCommandKeepsBook ==
    [][(pc = "loop" /\ steps' # steps /\ out' \in ErrorMessages) =>
          SameContent(book', book)]_vars

====
